---- MODULE Spec2Model ----
(***************************************************************************)
(* Habit Tracker API (src/backend/main.py): sprints, habits and effort     *)
(* logs kept in three SQLite tables, and the request handlers that read    *)
(* and write them.  Every `await` of a handler is a point where another    *)
(* request may run, so a handler is modelled as one action per store       *)
(* statement.  A transaction writes to its own copy of the rows, which     *)
(* other callers do not see before the commit; SQLite admits one writer,   *)
(* so no other caller writes while a transaction is open.  Foreign keys    *)
(* are declared but not enforced (SQLite's default).                       *)
(*                                                                         *)
(* Floats are modelled as exact rationals <<numerator, denominator>>.  The *)
(* hours, weights and targets drawn below are small integers whose         *)
(* quotients by 1 and 2 are binary fractions, on which float arithmetic is *)
(* exact.  The sprint name and the sprint's created_at are carried through  *)
(* by the code without being read and are left out of the rows.            *)
(***************************************************************************)
EXTENDS Integers, Sequences, FiniteSets, TLC

(* ------------------------------ bounds ------------------------------- *)

\* callers of the concurrent specification
NumProcs == 2
\* dates are day numbers 0..MaxDate
MaxDate == 2
\* hours logged are 0..MaxHours
MaxHours == 2
\* habits submitted with one sprint
MaxHabits == 2
\* rows held by a table at one time, and the largest row id handed out
MaxSprints == 1
MaxLogs == 2
MaxSprintId == 2
MaxHabitId == 2
MaxEffortId == 2
\* the clock reads 0..MaxTime
MaxTime == 1

(* ----------------------------- rationals ------------------------------ *)

Abs(n) == IF n < 0 THEN -n ELSE n

RECURSIVE GCD(_, _)
GCD(a, b) == IF b = 0 THEN a ELSE GCD(b, a % b)

\* the rational n/d in lowest terms with a positive denominator (d # 0)
Rat(n, d) ==
    LET g == GCD(Abs(n), Abs(d))
        s == IF d < 0 THEN -1 ELSE 1
    IN  <<(s * n) \div g, (s * d) \div g>>

RLeq(a, b) == a[1] * b[2] <= b[1] * a[2]
RAdd(a, b) == Rat(a[1] * b[2] + b[1] * a[2], a[2] * b[2])
RMul(a, b) == Rat(a[1] * b[1], a[2] * b[2])
\* Python's min(a, b): b only when b < a
RMin(a, b) == IF RLeq(a, b) THEN a ELSE b
Float(n) == <<n, 1>>

(* ------------------------------- store -------------------------------- *)

\* the unset marker of a days slot (Python None)
None == <<>>

Procs == 1..NumProcs
Dates == 0..MaxDate
Hours == 0..MaxHours
Times == 0..MaxTime

EmptyStore == [sprints |-> {}, habits |-> {}, effort_logs |-> {}]

Max(S) == CHOOSE x \in S : \A y \in S : y <= x

\* an INTEGER PRIMARY KEY column of SQLite: one more than the largest id held
NextId(rows) == IF rows = {} THEN 1 ELSE Max({r.id : r \in rows}) + 1

\* rows of a table in rowid order, as fetch_all returns them
RECURSIVE FetchAll(_)
FetchAll(rows) ==
    IF rows = {} THEN <<>>
    ELSE LET r == CHOOSE x \in rows : \A y \in rows : x.id <= y.id
         IN  <<r>> \o FetchAll(rows \ {r})

SprintRows(store, sprint_id) == {s \in store.sprints : s.id = sprint_id}
HabitRows(store, sprint_id) == {h \in store.habits : h.sprint_id = sprint_id}
EffortRows(store, habit_id, date) ==
    {e \in store.effort_logs : e.habit_id = habit_id /\ e.date = date}

(* ----------------------------- statements ----------------------------- *)

\* sprints.insert().values(...)
InsertSprint(store, sprint) ==
    [store EXCEPT !.sprints = @ \cup
        {[id |-> NextId(store.sprints), start_date |-> sprint.start_date,
          end_date |-> sprint.end_date]}]

\* habits.insert().values(sprint_id=..., name=..., weight=..., target_hours=...)
InsertHabit(store, sprint_id, habit) ==
    [store EXCEPT !.habits = @ \cup
        {[id |-> NextId(store.habits), sprint_id |-> sprint_id, name |-> habit.name,
          weight |-> habit.weight, target_hours |-> habit.target_hours]}]

\* effort_logs.insert().values(habit_id=..., date=..., hours=...); created_at
\* defaults to datetime.utcnow, here `now`
InsertEffort(store, effort, now) ==
    [store EXCEPT !.effort_logs = @ \cup
        {[id |-> NextId(store.effort_logs), habit_id |-> effort.habit_id,
          date |-> effort.date, hours |-> effort.hours, created_at |-> now]}]

\* an update of the habit's rows of every date
UpdateEffortAnyDate(store, effort) ==
    [store EXCEPT !.effort_logs =
        {IF e.habit_id = effort.habit_id
         THEN [e EXCEPT !.hours = effort.hours] ELSE e : e \in @}]

\* an update that also stamps the rows with the latest clock reading
UpdateEffortStamped(store, effort) ==
    [store EXCEPT !.effort_logs =
        {IF e.habit_id = effort.habit_id /\ e.date = effort.date
         THEN [e EXCEPT !.hours = effort.hours, !.created_at = MaxTime] ELSE e : e \in @}]

\* effort_logs.update().where(habit_id == ... & date == ...).values(hours=...)
UpdateEffort(store, effort) ==
    [store EXCEPT !.effort_logs =
        {IF e.habit_id = effort.habit_id /\ e.date = effort.date
         THEN [e EXCEPT !.hours = effort.hours] ELSE e : e \in @}]

\* a delete that removes no effort log
DeleteEffortsNone(store, habit_id) == store

\* effort_logs.delete().where(effort_logs.c.habit_id == habit.id)
DeleteEfforts(store, habit_id) ==
    [store EXCEPT !.effort_logs = {e \in @ : e.habit_id # habit_id}]

\* habits.delete().where(habits.c.sprint_id == sprint_id)
DeleteHabits(store, sprint_id) ==
    [store EXCEPT !.habits = {h \in @ : h.sprint_id # sprint_id}]

\* sprints.delete().where(sprints.c.id == sprint_id)
DeleteSprintRow(store, sprint_id) ==
    [store EXCEPT !.sprints = {s \in @ : s.id # sprint_id}]

\* the effort query of get_sprint: effort_logs JOIN habits ON e.habit_id = h.id
\* WHERE h.sprint_id = :sprint_id
JoinRows(store, sprint_id) ==
    {[id |-> e.id, date |-> e.date, hours |-> e.hours, habit_id |-> e.habit_id,
      weight |-> h.weight, target_hours |-> h.target_hours] :
        <<e, h>> \in {x \in store.effort_logs \X store.habits :
                        x[1].habit_id = x[2].id /\ x[2].sprint_id = sprint_id}}

\* a commit that loses the writes, and an exit by exception that keeps them
CommitNothing(store, work) == store
RollbackNothing(store, work) == work

\* leaving `async with database.transaction()` normally: the writes are committed
Commit(store, work) == work

\* leaving `async with database.transaction()` by an exception: they are undone
Rollback(store, work) == store

(* --------------------------- scoring engine --------------------------- *)

\* the day count without the closing day
DaysCountExclusive(sprint) == sprint.end_date - sprint.start_date

\* days_count = (sprint.end_date - sprint.start_date).days + 1
DaysCount(sprint) == (sprint.end_date - sprint.start_date) + 1

\* [x] * n, the empty list when n <= 0
ListRepeat(x, n) == [i \in 1..n |-> x]

\* the range check without its lower bound
InRangeAbove(day_index, days_count) == day_index < days_count

\* 0 <= day_index < days_count
InRange(day_index, days_count) == 0 <= day_index /\ day_index < days_count

\* the position of days[i] in a Python list: a negative i counts from the end;
\* 0 stands for IndexError
PyPos(days, i) ==
    LET k == IF i < 0 THEN Len(days) + i + 1 ELSE i + 1
    IN  IF k \in 1..Len(days) THEN k ELSE 0

\* the progress without its cap
ProgressUncapped(hours, target_hours) == Rat(hours, target_hours)

\* progress = min(effort.hours / effort.target_hours, 1)   (target_hours # 0)
Progress(hours, target_hours) == RMin(Rat(hours, target_hours), Float(1))

\* score = progress * effort.weight
Score(hours, target_hours, weight) == RMul(Progress(hours, target_hours), Float(weight))

\* a slot that keeps only the last score
Overwrite(slot, score) == score

\* `if days[day_index] is None: days[day_index] = score; else: days[day_index] += score`
Accumulate(slot, score) == IF slot = None THEN score ELSE RAdd(slot, score)

\* the loop `for effort in efforts`, from the k-th effort on
RECURSIVE DailyScores(_, _, _, _, _)
DailyScores(days, efforts, k, sprint, days_count) ==
    IF k > Len(efforts) THEN [error |-> "", days |-> days]
    ELSE
      LET effort == efforts[k]
          day_index == effort.date - sprint.start_date
      IN  IF ~InRange(day_index, days_count)
          THEN DailyScores(days, efforts, k + 1, sprint, days_count)
          ELSE IF effort.target_hours = 0
          THEN [error |-> "float division by zero", days |-> days]
          ELSE IF PyPos(days, day_index) = 0
          THEN [error |-> "list index out of range", days |-> days]
          ELSE
            LET score == Score(effort.hours, effort.target_hours, effort.weight)
                pos == PyPos(days, day_index)
            IN  DailyScores([days EXCEPT ![pos] = Accumulate(@, score)], efforts, k + 1,
                            sprint, days_count)

(* ------------------------------ requests ------------------------------ *)

Names == {"a", "b"}
Weights == {30, 50}
Targets == {-2, 0, 1, 2}

\* sequences over S of length 0..n
RECURSIVE SeqsUpTo(_, _)
SeqsUpTo(S, n) ==
    IF n = 0 THEN {<<>>}
    ELSE LET shorter == SeqsUpTo(S, n - 1)
         IN  shorter \cup {Append(q, x) : q \in {t \in shorter : Len(t) = n - 1}, x \in S}

EffortCreate == [habit_id : 1..MaxHabitId, date : Dates, hours : Hours]

SprintIds == 1..MaxSprintId

(* ------------------------------- state -------------------------------- *)

VARIABLES
    database,   \* the committed rows of the three tables
    tx,         \* the open transaction: its owner and its uncommitted rows
    pc,         \* where each caller's handler stands
    loc,        \* the handler's arguments and local variables
    res,        \* the response of a finished handler
    lastlog     \* history: the log_effort calls that last ran one after another

vars == <<database, tx, pc, loc, res, lastlog>>

NoTx == [owner |-> 0]
Idle == [op |-> "none"]
NoRes == [status |-> 0]
NoLog == [count |-> 0]

\* except Exception as e: raise HTTPException(status_code=500, detail=str(e))
Failure(detail) == [status |-> 500, detail |-> detail]

Init ==
    /\ database = EmptyStore
    /\ tx = NoTx
    /\ pc = [p \in Procs |-> "idle"]
    /\ loc = [p \in Procs |-> Idle]
    /\ res = [p \in Procs |-> NoRes]
    /\ lastlog = NoLog

\* a handler finishes with a response
Finish(p, response) ==
    /\ pc' = [pc EXCEPT ![p] = "done"]
    /\ res' = [res EXCEPT ![p] = response]

\* the response is sent and the caller is free for its next request
Return(p) ==
    /\ pc[p] = "done"
    /\ pc' = [pc EXCEPT ![p] = "idle"]
    /\ loc' = [loc EXCEPT ![p] = Idle]
    /\ res' = [res EXCEPT ![p] = NoRes]
    /\ UNCHANGED <<database, tx, lastlog>>

\* a response that skips the failure of the scoring loop
SprintResponseSilent(sprint, sprint_habits, store) ==
    LET days_count == DaysCount(sprint)
        efforts == FetchAll(JoinRows(store, sprint.id))
        scored == DailyScores(ListRepeat(None, days_count), efforts, 1, sprint, days_count)
    IN  [status |-> 200, id |-> sprint.id, start_date |-> sprint.start_date,
         end_date |-> sprint.end_date, habits |-> sprint_habits, days |-> scored.days]

\* what get_sprint answers from the sprint and habits it fetched and the store
\* its effort query reads
SprintResponse(sprint, sprint_habits, store) ==
    LET days_count == DaysCount(sprint)
        efforts == FetchAll(JoinRows(store, sprint.id))
        scored == DailyScores(ListRepeat(None, days_count), efforts, 1, sprint, days_count)
    IN  IF scored.error # "" THEN Failure(scored.error)
        ELSE [status |-> 200, id |-> sprint.id, start_date |-> sprint.start_date,
              end_date |-> sprint.end_date, habits |-> sprint_habits,
              days |-> scored.days]

\* what a get_sprint that ran on `store` alone would answer
Answer(store, sprint_id) ==
    IF SprintRows(store, sprint_id) = {} THEN Failure("404: Sprint not found")
    ELSE LET sprint == CHOOSE row \in SprintRows(store, sprint_id) : TRUE
         IN  SprintResponse(sprint, FetchAll(HabitRows(store, sprint_id)), store)

\* the locals once the committed rows are those of `store`: a get_sprint under
\* way that keeps the history of its call has one more store state to have
\* answered from (history, read by no handler)
Watched(locals, store) ==
    [q \in Procs |->
        IF pc[q] \in {"gs_habits", "gs_efforts"} /\ locals[q].seen # {}
        THEN [locals[q] EXCEPT !.seen = @ \cup {Answer(store, locals[q].sprint_id)}]
        ELSE locals[q]]

(* ---------------------------- create_sprint --------------------------- *)

\* database.transaction() is entered and the sprint row is inserted
CreateSprintBegin(p, sprint) ==
    /\ pc[p] = "idle"
    /\ tx.owner = 0
    /\ Cardinality(database.sprints) < MaxSprints
    /\ NextId(database.sprints) <= MaxSprintId
    /\ NextId(database.habits) + Len(sprint.habits) - 1 <= MaxHabitId
    /\ tx' = [owner |-> p, work |-> InsertSprint(database, sprint)]
    /\ pc' = [pc EXCEPT ![p] = "cs_habits"]
    /\ loc' = [loc EXCEPT ![p] =
                 [op |-> "create_sprint", sprint |-> sprint,
                  sprint_id |-> NextId(database.sprints), i |-> 1,
                  habit_ids |-> [n \in {} |-> 0]]]
    /\ UNCHANGED <<database, res, lastlog>>

\* an assignment that keeps the value a key already has
SetDefault(dict, key, value) ==
    [n \in DOMAIN dict \cup {key} |-> IF n \in DOMAIN dict THEN dict[n] ELSE value]

\* dict[key] = value
SetItem(dict, key, value) ==
    [n \in DOMAIN dict \cup {key} |-> IF n = key THEN value ELSE dict[n]]

\* one turn of `for habit in sprint.habits`
CreateSprintHabit(p) ==
    /\ pc[p] = "cs_habits"
    /\ loc[p].i <= Len(loc[p].sprint.habits)
    /\ LET habit == loc[p].sprint.habits[loc[p].i]
           habit_id == NextId(tx.work.habits)
       IN  /\ tx' = [tx EXCEPT !.work = InsertHabit(@, loc[p].sprint_id, habit)]
           /\ loc' = [loc EXCEPT ![p].i = @ + 1,
                                 ![p].habit_ids = SetItem(@, habit.name, habit_id)]
    /\ UNCHANGED <<database, pc, res, lastlog>>

\* the transaction commits and the ids are returned
CreateSprintReturn(p) ==
    /\ pc[p] = "cs_habits"
    /\ loc[p].i > Len(loc[p].sprint.habits)
    /\ database' = Commit(database, tx.work)
    /\ tx' = NoTx
    /\ Finish(p, [status |-> 200, sprint_id |-> loc[p].sprint_id,
                  habit_ids |-> loc[p].habit_ids])
    /\ loc' = Watched(loc, database')
    /\ UNCHANGED lastlog

\* the sprint insert itself raises: nothing was written
CreateSprintRefused(p) ==
    /\ pc[p] = "idle"
    /\ loc' = [loc EXCEPT ![p] = [op |-> "create_sprint", i |-> 0]]
    /\ Finish(p, Failure("storage failure"))
    /\ UNCHANGED <<database, tx, lastlog>>

\* a habit insert or the commit raises: the transaction is rolled back
CreateSprintFail(p) ==
    /\ pc[p] = "cs_habits"
    /\ database' = Rollback(database, tx.work)
    /\ tx' = NoTx
    /\ Finish(p, Failure("storage failure"))
    /\ UNCHANGED <<loc, lastlog>>

(* ------------------------------ get_sprint ---------------------------- *)

\* fetch_one(sprints.select().where(sprints.c.id == sprint_id)); the 404 raised
\* for a missing sprint is caught by `except Exception` and sent as a 500.  With
\* `watch` the call keeps the history of the store states it runs through.
GetSprintFetch(p, sprint_id, watch) ==
    /\ pc[p] = "idle"
    /\ IF SprintRows(database, sprint_id) = {}
       THEN /\ loc' = [loc EXCEPT ![p] = [op |-> "get_sprint", sprint_id |-> sprint_id]]
            /\ Finish(p, Failure("404: Sprint not found"))
       ELSE /\ loc' = [loc EXCEPT ![p] =
                         [op |-> "get_sprint", sprint_id |-> sprint_id,
                          sprint |-> CHOOSE s \in SprintRows(database, sprint_id) : TRUE,
                          seen |-> IF watch THEN {Answer(database, sprint_id)} ELSE {}]]
            /\ pc' = [pc EXCEPT ![p] = "gs_habits"]
            /\ UNCHANGED res
    /\ UNCHANGED <<database, tx, lastlog>>

\* fetch_all(habits.select().where(habits.c.sprint_id == sprint_id))
GetSprintHabits(p) ==
    /\ pc[p] = "gs_habits"
    /\ loc' = [loc EXCEPT ![p] =
                 [op |-> "get_sprint", sprint_id |-> loc[p].sprint_id,
                  sprint |-> loc[p].sprint, seen |-> loc[p].seen,
                  sprint_habits |-> FetchAll(HabitRows(database, loc[p].sprint_id))]]
    /\ pc' = [pc EXCEPT ![p] = "gs_efforts"]
    /\ UNCHANGED <<database, tx, res, lastlog>>

\* the effort query, the scoring loop and the response
GetSprintEfforts(p) ==
    /\ pc[p] = "gs_efforts"
    /\ Finish(p, SprintResponse(loc[p].sprint, loc[p].sprint_habits, database))
    /\ UNCHANGED <<database, tx, loc, lastlog>>

(* --------------------------- get_daily_efforts ------------------------ *)

\* fetch_all of the sprint's habits; `if not sprint_habits:` raises the 404, which
\* the handler's own `except Exception` catches and raises again as a 500
GetDailyEffortsFetch(p, sprint_id, date) ==
    /\ pc[p] = "idle"
    /\ LET sprint_habits == FetchAll(HabitRows(database, sprint_id))
       IN  /\ loc' = [loc EXCEPT ![p] =
                        [op |-> "get_daily_efforts", sprint_id |-> sprint_id,
                         date |-> date, sprint_habits |-> sprint_habits,
                         efforts |-> <<>>]]
           /\ IF sprint_habits = <<>>
              THEN Finish(p, Failure("404: Sprint not found or has no habits"))
              ELSE pc' = [pc EXCEPT ![p] = "de_effort"] /\ UNCHANGED res
    /\ UNCHANGED <<database, tx, lastlog>>

\* {"habit_name": ..., "habit_id": ..., "hours": effort.hours if effort else 0}
EffortEntry(habit, found) ==
    [habit_name |-> habit.name, habit_id |-> habit.id,
     hours |-> IF found = {} THEN 0 ELSE (CHOOSE e \in found : TRUE).hours]

\* one turn of the loop: fetch_one of the habit's effort log of the date (any one
\* of the rows the query matches) and append the entry; after the last habit the
\* list is returned
GetDailyEffortsEffort(p) ==
    /\ pc[p] = "de_effort"
    /\ LET habit == loc[p].sprint_habits[Len(loc[p].efforts) + 1]
           rows == EffortRows(database, habit.id, loc[p].date)
       IN  \E found \in (IF rows = {} THEN {{}} ELSE {{e} : e \in rows}) :
              LET efforts == Append(loc[p].efforts, EffortEntry(habit, found))
              IN  /\ loc' = [loc EXCEPT ![p].efforts = efforts]
                  /\ IF Len(efforts) = Len(loc[p].sprint_habits)
                     THEN Finish(p, [status |-> 200, efforts |-> efforts])
                     ELSE UNCHANGED <<pc, res>>
    /\ UNCHANGED <<database, tx, lastlog>>

(* ------------------------------ log_effort ---------------------------- *)

SameKey(a, b) == a.habit_id = b.habit_id /\ a.date = b.date

\* the other callers inside a log_effort for the same (habit_id, date)
Overlapping(p, effort) ==
    {q \in Procs \ {p} : pc[q] = "le_write" /\ SameKey(loc[q].effort, effort)}

\* fetch_one(existing_query): is there a row for (habit_id, date)?
LogEffortFetch(p, effort) ==
    /\ pc[p] = "idle"
    /\ loc' = [q \in Procs |->
                 IF q = p
                 THEN [op |-> "log_effort", effort |-> effort,
                       existing_effort |->
                          EffortRows(database, effort.habit_id, effort.date) # {},
                       alone |-> Overlapping(p, effort) = {}]
                 ELSE IF q \in Overlapping(p, effort)
                 THEN [loc[q] EXCEPT !.alone = FALSE]
                 ELSE loc[q]]
    /\ pc' = [pc EXCEPT ![p] = "le_write"]
    /\ UNCHANGED <<database, tx, res, lastlog>>

\* the log_effort calls on one (habit_id, date) that ran one after the other,
\* none overlapping another call for that pair: how many (up to 2), the hours of
\* the last and of the one before it
Logged(last, l) ==
    IF ~l.alone THEN NoLog
    ELSE IF last.count > 0 /\ SameKey(last, l.effort)
    THEN [count |-> 2, habit_id |-> l.effort.habit_id, date |-> l.effort.date,
          hours |-> l.effort.hours, before |-> last.hours]
    ELSE [count |-> 1, habit_id |-> l.effort.habit_id, date |-> l.effort.date,
          hours |-> l.effort.hours, before |-> l.effort.hours]

\* `if existing_effort:` update the rows of the pair, else insert a new row,
\* created at one of the clock readings `times`
LogEffortWrite(p, times) ==
    /\ pc[p] = "le_write"
    /\ tx.owner = 0
    /\ IF loc[p].existing_effort
       THEN /\ database' = UpdateEffort(database, loc[p].effort)
            /\ Finish(p, [status |-> 200, message |-> "Effort updated successfully"])
       ELSE /\ Cardinality(database.effort_logs) < MaxLogs
            /\ NextId(database.effort_logs) <= MaxEffortId
            /\ \E now \in times : database' = InsertEffort(database, loc[p].effort, now)
            /\ Finish(p, [status |-> 200, effort_id |-> NextId(database.effort_logs)])
    /\ lastlog' = Logged(lastlog, loc[p])
    /\ loc' = Watched(loc, database')
    /\ UNCHANGED tx

\* the write raises (the store is locked or fails): nothing is written
LogEffortFail(p) ==
    /\ pc[p] = "le_write"
    /\ Finish(p, Failure("storage failure"))
    /\ lastlog' = NoLog
    /\ UNCHANGED <<database, tx, loc>>

(* ----------------------------- delete_sprint -------------------------- *)

\* database.transaction() is entered and the habits of the sprint are fetched
DeleteSprintBegin(p, sprint_id) ==
    /\ pc[p] = "idle"
    /\ tx.owner = 0
    /\ tx' = [owner |-> p, work |-> database]
    /\ loc' = [loc EXCEPT ![p] =
                 [op |-> "delete_sprint", sprint_id |-> sprint_id, i |-> 1,
                  sprint_habits |-> FetchAll(HabitRows(database, sprint_id))]]
    /\ pc' = [pc EXCEPT ![p] = "ds_efforts"]
    /\ UNCHANGED <<database, res, lastlog>>

\* one turn of `for habit in sprint_habits`: delete the habit's effort logs
DeleteSprintEfforts(p) ==
    /\ pc[p] = "ds_efforts"
    /\ loc[p].i <= Len(loc[p].sprint_habits)
    /\ tx' = [tx EXCEPT !.work = DeleteEfforts(@, loc[p].sprint_habits[loc[p].i].id)]
    /\ loc' = [loc EXCEPT ![p].i = @ + 1]
    /\ UNCHANGED <<database, pc, res, lastlog>>

\* delete the habits of the sprint
DeleteSprintHabits(p) ==
    /\ pc[p] = "ds_efforts"
    /\ loc[p].i > Len(loc[p].sprint_habits)
    /\ tx' = [tx EXCEPT !.work = DeleteHabits(@, loc[p].sprint_id)]
    /\ pc' = [pc EXCEPT ![p] = "ds_sprint"]
    /\ UNCHANGED <<database, loc, res, lastlog>>

\* delete the sprint; the transaction commits
DeleteSprintReturn(p) ==
    /\ pc[p] = "ds_sprint"
    /\ database' = Commit(database, DeleteSprintRow(tx.work, loc[p].sprint_id))
    /\ tx' = NoTx
    /\ Finish(p, [status |-> 200, message |-> "Sprint deleted successfully"])
    /\ lastlog' = NoLog
    /\ loc' = Watched(loc, database')

\* a statement of the transaction raises: the transaction is rolled back
DeleteSprintFail(p) ==
    /\ pc[p] \in {"ds_efforts", "ds_sprint"}
    /\ database' = Rollback(database, tx.work)
    /\ tx' = NoTx
    /\ Finish(p, Failure("storage failure"))
    /\ UNCHANGED <<loc, lastlog>>

(* --------------------------- specifications --------------------------- *)

\* one step of caller p, its requests drawn from the given sets
Step(p, creates, efforts, times) ==
    \/ pc[p] = "idle" /\ \E sprint \in creates : CreateSprintBegin(p, sprint)
    \/ CreateSprintRefused(p)
    \/ CreateSprintHabit(p)
    \/ CreateSprintReturn(p)
    \/ CreateSprintFail(p)
    \/ \E sprint_id \in SprintIds : GetSprintFetch(p, sprint_id, FALSE)
    \/ GetSprintHabits(p)
    \/ GetSprintEfforts(p)
    \/ \E effort \in efforts : LogEffortFetch(p, effort)
    \/ LogEffortWrite(p, times)
    \/ LogEffortFail(p)
    \/ \E sprint_id \in SprintIds : DeleteSprintBegin(p, sprint_id)
    \/ DeleteSprintEfforts(p)
    \/ DeleteSprintHabits(p)
    \/ DeleteSprintReturn(p)
    \/ DeleteSprintFail(p)
    \/ Return(p)

\* the requests of the concurrent specification: the scoring columns are fixed
ConcHabitCreate == [name : Names, weight : {50}, target_hours : {2}]
ConcSprintCreate ==
    [start_date : {0}, end_date : {1}, habits : SeqsUpTo(ConcHabitCreate, MaxHabits)]
ConcEffortCreate == [habit_id : {1}, date : {0}, hours : {1, 2}]
\* no handler reads created_at: the clock of the concurrent callers stands still
ConcTimes == {0}

\* concurrent callers (get_daily_efforts, which writes nothing, has its own
\* specification below)
Next == \E p \in Procs : Step(p, ConcSprintCreate, ConcEffortCreate, ConcTimes)

Spec == Init /\ [][Next]_vars

(* The scoring engine is a function of the rows get_sprint reads.  Its       *)
(* specification starts from any store that one create_sprint followed by   *)
(* log_effort calls leaves (two rows of one (habit_id, date) are what two    *)
(* racing log_effort calls leave), and runs get_sprint on it.                *)

ScoreHabitCreate == [name : {"a"}, weight : Weights, target_hours : Targets]
ScoreSprintCreate ==
    [start_date : Dates, end_date : Dates, habits : SeqsUpTo(ScoreHabitCreate, MaxHabits)]

\* the store after create_sprint(sprint)
RECURSIVE WithHabits(_, _, _)
WithHabits(store, habits, k) ==
    IF k > Len(habits) THEN store
    ELSE WithHabits(InsertHabit(store, 1, habits[k]), habits, k + 1)

\* the store after the inserts of the given efforts
RECURSIVE WithEfforts(_, _, _)
WithEfforts(store, efforts, k) ==
    IF k > Len(efforts) THEN store
    ELSE WithEfforts(InsertEffort(store, efforts[k], 0), efforts, k + 1)

\* the store after create_sprint(sprint) and the inserts of the efforts
ScoreStore(sprint, efforts) ==
    WithEfforts(WithHabits(InsertSprint(EmptyStore, sprint), sprint.habits, 1), efforts, 1)

InitScore ==
    /\ \E sprint \in ScoreSprintCreate, efforts \in SeqsUpTo(EffortCreate, MaxLogs) :
          database = ScoreStore(sprint, efforts)
    /\ tx = NoTx
    /\ pc = [p \in Procs |-> "idle"]
    /\ loc = [p \in Procs |-> Idle]
    /\ res = [p \in Procs |-> NoRes]
    /\ lastlog = NoLog

NextScore ==
    \/ \E sprint_id \in SprintIds : GetSprintFetch(1, sprint_id, FALSE)
    \/ GetSprintHabits(1)
    \/ GetSprintEfforts(1)
    \/ Return(1)

SpecScore == InitScore /\ [][NextScore]_vars

(* log_effort reads and writes effort_logs only.  Its specification starts   *)
(* from any store that create_sprint calls (two at most, one habit each)     *)
(* followed by log_effort calls leave, and runs one log_effort on it.        *)

LogHabitCreate == [name : {"a"}, weight : {50}, target_hours : {0, 2}]
LogSprintCreate ==
    [start_date : Dates, end_date : Dates, habits : {<<habit>> : habit \in LogHabitCreate}]
LoggedEffort == [habit_id : 1..MaxHabitId, date : Dates, hours : {1}]

\* the store after the inserts of the habits for sprint sprint_id
RECURSIVE WithHabitsOf(_, _, _, _)
WithHabitsOf(store, sprint_id, habits, k) ==
    IF k > Len(habits) THEN store
    ELSE WithHabitsOf(InsertHabit(store, sprint_id, habits[k]), sprint_id, habits, k + 1)

\* the store after create_sprint of each of the sprints
RECURSIVE WithSprints(_, _, _)
WithSprints(store, sprints, k) ==
    IF k > Len(sprints) THEN store
    ELSE WithSprints(WithHabitsOf(InsertSprint(store, sprints[k]), NextId(store.sprints),
                                  sprints[k].habits, 1),
                     sprints, k + 1)

InitLog ==
    /\ \E sprints \in SeqsUpTo(LogSprintCreate, MaxSprintId),
          efforts \in SeqsUpTo(LoggedEffort, MaxLogs) :
          database = WithEfforts(WithSprints(EmptyStore, sprints, 1), efforts, 1)
    /\ tx = NoTx
    /\ pc = [p \in Procs |-> "idle"]
    /\ loc = [p \in Procs |-> Idle]
    /\ res = [p \in Procs |-> NoRes]
    /\ lastlog = NoLog

NextLog ==
    \/ \E effort \in EffortCreate : LogEffortFetch(1, effort)
    \/ LogEffortWrite(1, Times)
    \/ LogEffortFail(1)

SpecLog == InitLog /\ [][NextLog]_vars

(* get_daily_efforts reads habits and effort_logs.  Its specification starts *)
(* from any store that one create_sprint followed by log_effort calls        *)
(* leaves, and runs one get_daily_efforts on it.                             *)

InitDaily ==
    /\ \E sprint \in ConcSprintCreate, efforts \in SeqsUpTo(EffortCreate, MaxLogs) :
          database = ScoreStore(sprint, efforts)
    /\ tx = NoTx
    /\ pc = [p \in Procs |-> "idle"]
    /\ loc = [p \in Procs |-> Idle]
    /\ res = [p \in Procs |-> NoRes]
    /\ lastlog = NoLog

NextDaily ==
    \/ \E sprint_id \in SprintIds, date \in Dates : GetDailyEffortsFetch(1, sprint_id, date)
    \/ GetDailyEffortsEffort(1)

SpecDaily == InitDaily /\ [][NextDaily]_vars

(* get_sprint reads the store in three statements.  Its concurrent            *)
(* specification starts from any store that one create_sprint followed by   *)
(* log_effort calls leaves; caller 1 runs get_sprint, keeping the history   *)
(* of its call, while caller 2 runs log_effort and delete_sprint.            *)

InitRead ==
    /\ \E sprint \in ConcSprintCreate, efforts \in SeqsUpTo(ConcEffortCreate, MaxLogs) :
          database = ScoreStore(sprint, efforts)
    /\ tx = NoTx
    /\ pc = [p \in Procs |-> "idle"]
    /\ loc = [p \in Procs |-> Idle]
    /\ res = [p \in Procs |-> NoRes]
    /\ lastlog = NoLog

NextRead ==
    \/ \E sprint_id \in SprintIds : GetSprintFetch(1, sprint_id, TRUE)
    \/ GetSprintHabits(1)
    \/ GetSprintEfforts(1)
    \/ \E effort \in ConcEffortCreate : LogEffortFetch(2, effort)
    \/ LogEffortWrite(2, ConcTimes)
    \/ LogEffortFail(2)
    \/ \E sprint_id \in SprintIds : DeleteSprintBegin(2, sprint_id)
    \/ DeleteSprintEfforts(2)
    \/ DeleteSprintHabits(2)
    \/ DeleteSprintReturn(2)
    \/ DeleteSprintFail(2)
    \/ \E p \in Procs : Return(p)

SpecRead == InitRead /\ [][NextRead]_vars

(* -------------------------- store properties -------------------------- *)

\* C1: the store holds at most one effort log per (habit_id, date), whatever the
\* interleaving of log_effort calls.
C1_OneRowPerHabitDate ==
    \A e1, e2 \in database.effort_logs : SameKey(e1, e2) => e1 = e2

\* the effort logs of the pair that lastlog names
LastRows == EffortRows(database, lastlog.habit_id, lastlog.date)

\* C2: after log_effort(habit, date, x) and then log_effort(habit, date, y), each
\* run to completion with no other operation on the pair, there is exactly one
\* effort log for (habit, date) and its hours are y.
C2_Overwrite ==
    lastlog.count = 2 =>
        /\ Cardinality(LastRows) = 1
        /\ \A e \in LastRows : e.hours = lastlog.hours

\* C3: log_effort run twice in sequence with the same (habit, date, hours) leaves
\* one effort log for (habit, date) with those hours, not two.
C3_Idempotent ==
    (lastlog.count = 2 /\ lastlog.before = lastlog.hours) =>
        \E e \in LastRows : LastRows = {e} /\ e.hours = lastlog.hours

\* caller p takes the last step of `op` and answers with `status`
Completes(p, op, status) ==
    /\ pc[p] # "done" /\ pc'[p] = "done"
    /\ loc'[p].op = op
    /\ res'[p].status = status

\* C4: when delete_sprint(s) completes successfully the store holds no sprint s,
\* no habit of s and no effort log of a habit that belonged to s; and if there was
\* no sprint s it answers success and leaves the store unchanged.
C4_CascadeDelete ==
    [][\A p \in Procs :
          Completes(p, "delete_sprint", 200) =>
              LET s == loc[p].sprint_id
                  owned == {h.id : h \in HabitRows(database, s)}
              IN  /\ SprintRows(database', s) = {}
                  /\ HabitRows(database', s) = {}
                  /\ \A e \in database'.effort_logs : e.habit_id \notin owned
                  /\ SprintRows(database, s) = {} => database' = database]_vars

\* a delete_sprint that found habits has completed and the store is empty
C4_Witness ==
    \E p \in Procs :
        /\ pc[p] = "done" /\ loc[p].op = "delete_sprint" /\ res[p].status = 200
        /\ Len(loc[p].sprint_habits) > 0
        /\ database = EmptyStore

\* C5: a delete_sprint that fails partway reports the failure and leaves the store
\* exactly as it was before the call.
C5_DeleteAllOrNothing ==
    [][\A p \in Procs :
          (pc[p] \in {"ds_efforts", "ds_sprint"} /\ pc'[p] = "done"
             /\ ~(res'[p].status = 200 /\ pc[p] = "ds_sprint"))
          => /\ res'[p].status = 500
             /\ database' = database
             /\ tx'.owner # p]_vars

\* a delete_sprint failed after it had deleted the effort logs of a habit, and
\* the sprint, its habits and effort logs are in the store
C5_Witness ==
    \E p \in Procs :
        /\ pc[p] = "done" /\ loc[p].op = "delete_sprint" /\ res[p].status = 500
        /\ loc[p].i > 1
        /\ SprintRows(database, loc[p].sprint_id) # {}
        /\ HabitRows(database, loc[p].sprint_id) # {}
        /\ \E e \in database.effort_logs : e.habit_id = loc[p].sprint_habits[1].id

\* the k-th habit row of the sprint is the k-th submitted specification
Persisted(rows, habits, sprint_id) ==
    /\ Len(rows) = Len(habits)
    /\ \A k \in 1..Len(habits) :
          /\ rows[k].sprint_id = sprint_id
          /\ rows[k].name = habits[k].name
          /\ rows[k].weight = habits[k].weight
          /\ rows[k].target_hours = habits[k].target_hours

\* C6: a create_sprint of which an insert fails reports the failure and leaves
\* neither the sprint nor any habit of the call in the store; a successful one
\* leaves the new sprint and exactly one habit per submitted specification, each
\* linked to the new sprint.
C6_CreateAllOrNothing ==
    [][\A p \in Procs :
          /\ Completes(p, "create_sprint", 500) =>
                database' = database /\ tx'.owner # p
          /\ Completes(p, "create_sprint", 200) =>
                LET s == res'[p].sprint_id
                IN  /\ SprintRows(database, s) = {}
                    /\ SprintRows(database', s) =
                          {[id |-> s, start_date |-> loc[p].sprint.start_date,
                            end_date |-> loc[p].sprint.end_date]}
                    /\ Persisted(FetchAll(HabitRows(database', s)), loc[p].sprint.habits, s)
                    /\ database'.sprints \ SprintRows(database', s) = database.sprints
                    /\ database'.habits \ HabitRows(database', s) = database.habits
                    /\ database'.effort_logs = database.effort_logs]_vars

\* one create_sprint failed after inserting a habit and left nothing, and another
\* succeeded with two habits
C6_Witness ==
    \E p, q \in Procs :
        /\ pc[p] = "done" /\ loc[p].op = "create_sprint" /\ res[p].status = 500
        /\ loc[p].i > 1
        /\ pc[q] = "done" /\ loc[q].op = "create_sprint" /\ res[q].status = 200
        /\ Cardinality(HabitRows(database, res[q].sprint_id)) = 2
        /\ Cardinality(database.habits) = 2

(* ------------------------- scoring properties ------------------------- *)

\* caller p holds a successful get_sprint response
Scored(p) == pc[p] = "done" /\ loc[p].op = "get_sprint" /\ res[p].status = 200

\* caller p holds a get_sprint response for a sprint that was found
Retrieved(p) == pc[p] = "done" /\ loc[p].op = "get_sprint" /\ "sprint" \in DOMAIN loc[p]

\* the days of the sprint, both ends counted
Span(sprint) == (sprint.end_date - sprint.start_date) + 1

\* the effort logs of the sprint's habits dated start_date + i
LogsOfDay(sprint, i) ==
    {r \in JoinRows(database, sprint.id) : r.date = sprint.start_date + i}

RECURSIVE AbsProduct(_)
AbsProduct(S) ==
    IF S = {} THEN 1
    ELSE LET x == CHOOSE y \in S : TRUE IN Abs(x) * AbsProduct(S \ {x})

\* every contribution is a multiple of 1/ScoreScale: each target divides ScoreScale
ScoreScale == AbsProduct(Targets \ {0})

\* ScoreScale * min(hours / target_hours, 1) * weight, for target_hours # 0
ScaledContribution(r) ==
    IF r.hours * r.target_hours >= r.target_hours * r.target_hours
    THEN ScoreScale * r.weight
    ELSE (ScoreScale \div r.target_hours) * r.hours * r.weight

RECURSIVE ScaledSum(_)
ScaledSum(rows) ==
    IF rows = {} THEN 0
    ELSE LET r == CHOOSE x \in rows : TRUE
         IN  ScaledContribution(r) + ScaledSum(rows \ {r})

RECURSIVE WeightSum(_)
WeightSum(rows) ==
    IF rows = {} THEN 0
    ELSE LET r == CHOOSE x \in rows : TRUE
         IN  r.weight + WeightSum(rows \ {r})

\* C7: in a successful get_sprint response, for every day index i in
\* [0, days_count), days[i] is unset exactly when no effort log of a habit of the
\* sprint is dated start_date + i, and otherwise is the sum over those logs of
\* min(hours / target_hours, 1) * weight (so logs totalling zero give 0, not unset).
C7_DailyScore ==
    \A p \in Procs :
        Scored(p) =>
            \A i \in 0..(Span(loc[p].sprint) - 1) :
                LET slot == res[p].days[i + 1]
                    logs == LogsOfDay(loc[p].sprint, i)
                IN  /\ (slot = None) <=> (logs = {})
                    /\ logs # {} => slot[1] * ScoreScale = slot[2] * ScaledSum(logs)

\* a response with an unset day and a day whose logs total zero
C7_Witness ==
    \E p \in Procs :
        /\ Scored(p)
        /\ \E i, j \in 1..Len(res[p].days) :
              /\ res[p].days[i] = None
              /\ res[p].days[j] = Float(0)
              /\ LogsOfDay(loc[p].sprint, j - 1) # {}

\* the store without the effort logs dated outside [start_date, end_date]
WithoutOutside(store, sprint) ==
    [store EXCEPT !.effort_logs =
        {e \in @ : sprint.start_date <= e.date /\ e.date <= sprint.end_date}]

Excluded(p) ==
    Retrieved(p) =>
        res[p] = SprintResponse(loc[p].sprint, loc[p].sprint_habits,
                                WithoutOutside(database, loc[p].sprint))

\* C8 as stated: the days array has length exactly (end_date - start_date).days + 1
\* and effort logs dated outside the range change nothing.
C8_Original ==
    \A p \in Procs :
        /\ Scored(p) => Len(res[p].days) = Span(loc[p].sprint)
        /\ Excluded(p)

\* C8, amended: the days array has length max(0, (end_date - start_date).days + 1),
\* and get_sprint answers as it would without the effort logs dated outside
\* [start_date, end_date]: they change no slot and cause no failure.
C8_LengthAndRange ==
    \A p \in Procs :
        /\ Scored(p) =>
              Len(res[p].days) =
                 IF Span(loc[p].sprint) > 0 THEN Span(loc[p].sprint) ELSE 0
        /\ Excluded(p)

\* a response of at least two days for a sprint with a log before start_date
C8_Witness ==
    \E p \in Procs :
        /\ Scored(p)
        /\ Len(res[p].days) >= 2
        /\ \E r \in JoinRows(database, loc[p].sprint.id) :
              r.date < loc[p].sprint.start_date

\* the logs of day i all meet their target, which is positive when `positive`
FullyMet(logs, positive) ==
    /\ logs # {}
    /\ \A r \in logs : r.hours >= r.target_hours /\ (positive => r.target_hours > 0)

\* C9 as stated: an in-range effort log with hours >= target_hours contributes
\* exactly the habit's weight, whatever the stored target_hours.
C9_Original ==
    \A p \in Procs :
        Scored(p) =>
            \A i \in 0..(Span(loc[p].sprint) - 1) :
                FullyMet(LogsOfDay(loc[p].sprint, i), FALSE) =>
                    res[p].days[i + 1] = Float(WeightSum(LogsOfDay(loc[p].sprint, i)))

\* C9, amended: an in-range effort log with hours >= target_hours > 0 contributes
\* exactly the habit's weight: a day whose logs all meet a positive target scores
\* the sum of their habits' weights.
C9_FullWeight ==
    \A p \in Procs :
        Scored(p) =>
            \A i \in 0..(Span(loc[p].sprint) - 1) :
                FullyMet(LogsOfDay(loc[p].sprint, i), TRUE) =>
                    res[p].days[i + 1] = Float(WeightSum(LogsOfDay(loc[p].sprint, i)))

\* a scored day with a log above its positive target
C9_Witness ==
    \E p \in Procs :
        /\ Scored(p)
        /\ \E i \in 0..(Span(loc[p].sprint) - 1) :
              /\ FullyMet(LogsOfDay(loc[p].sprint, i), TRUE)
              /\ \E r \in LogsOfDay(loc[p].sprint, i) : r.hours > r.target_hours

ArithmeticFailure(p) ==
    res[p].status = 500 /\ res[p].detail = "float division by zero"

\* C10 as stated: a habit with target_hours = 0 and any effort log recorded against
\* it makes get_sprint fail with the arithmetic error.
C10_Original ==
    \A p \in Procs :
        Retrieved(p) =>
            ((\E r \in JoinRows(database, loc[p].sprint.id) : r.target_hours = 0)
                => ArithmeticFailure(p))

\* C10, amended: a habit with target_hours = 0 and an effort log dated within
\* [start_date, end_date] makes get_sprint fail with the arithmetic error; it
\* returns no days array.
C10_ZeroTarget ==
    \A p \in Procs :
        Retrieved(p) =>
            ((\E r \in JoinRows(database, loc[p].sprint.id) :
                 /\ r.target_hours = 0
                 /\ loc[p].sprint.start_date <= r.date
                 /\ r.date <= loc[p].sprint.end_date)
                => ArithmeticFailure(p) /\ "days" \notin DOMAIN res[p])

\* get_sprint failed with the arithmetic error
C10_Witness ==
    \E p \in Procs : Retrieved(p) /\ ArithmeticFailure(p)

(* ------------------------ log_effort properties ----------------------- *)

\* C11: when log_effort finds an effort log for (habit_id, date) it overwrites the
\* hours in place: the number of effort logs is unchanged, each row of the pair
\* keeps its id and its created_at and holds the new hours, the response carries
\* no effort_id, and every effort log of another pair, every habit and every
\* sprint is unchanged.
C11_UpdateInPlace ==
    [][\A p \in Procs :
          (Completes(p, "log_effort", 200) /\ loc[p].existing_effort) =>
              /\ Cardinality(database'.effort_logs) = Cardinality(database.effort_logs)
              /\ \A e \in database.effort_logs :
                    IF SameKey(e, loc[p].effort)
                    THEN [e EXCEPT !.hours = loc[p].effort.hours] \in database'.effort_logs
                    ELSE e \in database'.effort_logs
              /\ "effort_id" \notin DOMAIN res'[p]
              /\ database'.habits = database.habits
              /\ database'.sprints = database.sprints]_vars

\* a log_effort updated the row of its pair, next to a row of another pair
C11_Witness ==
    \E p \in Procs :
        /\ pc[p] = "done" /\ loc[p].op = "log_effort" /\ res[p].status = 200
        /\ loc[p].existing_effort
        /\ \E e \in database.effort_logs :
              SameKey(e, loc[p].effort) /\ e.hours = loc[p].effort.hours /\ e.hours # 1
        /\ \E e \in database.effort_logs : ~SameKey(e, loc[p].effort)

(* --------------------- get_daily_efforts properties ------------------- *)

\* caller p holds a get_daily_efforts response
Listed(p) == pc[p] = "done" /\ loc[p].op = "get_daily_efforts"

\* the outcome is the not-found error kind
NotFound(response) == response.status = 404

\* one entry per habit of the sprint, in fetch order, with the hours of an effort
\* log of that habit for the date, or 0 when there is none
C12_Listing ==
    \A p \in Procs :
        (Listed(p) /\ HabitRows(database, loc[p].sprint_id) # {}) =>
            LET sprint_habits == FetchAll(HabitRows(database, loc[p].sprint_id))
            IN  /\ res[p].status = 200
                /\ Len(res[p].efforts) = Len(sprint_habits)
                /\ \A k \in 1..Len(sprint_habits) :
                      LET entry == res[p].efforts[k]
                          logs == EffortRows(database, sprint_habits[k].id, loc[p].date)
                      IN  /\ entry.habit_id = sprint_habits[k].id
                          /\ entry.habit_name = sprint_habits[k].name
                          /\ IF logs = {} THEN entry.hours = 0
                             ELSE \E e \in logs : entry.hours = e.hours

\* C12: for a sprint with at least one habit get_daily_efforts(sprint, date)
\* returns exactly one entry per habit of the sprint, in fetch order, with the
\* hours of that habit's effort log for the date, or 0 when there is none; for a
\* sprint id with no habits it fails with NotFound.
C12_DailyEfforts ==
    /\ C12_Listing
    /\ \A p \in Procs :
          (Listed(p) /\ HabitRows(database, loc[p].sprint_id) = {}) => NotFound(res[p])

(* ----------------------- create_sprint properties --------------------- *)

\* C13: create_sprint persists one habit row per submitted habit, in order and
\* each under its own id, also when two of them share a name, and the returned
\* habit_ids has one entry per distinct name: the id of the last habit submitted
\* with that name.
C13_SharedNames ==
    [][\A p \in Procs :
          Completes(p, "create_sprint", 200) =>
              LET submitted == loc[p].sprint.habits
                  created == FetchAll(database'.habits \ database.habits)
              IN  /\ Len(created) = Len(submitted)
                  /\ \A k \in 1..Len(submitted) :
                        /\ created[k].name = submitted[k].name
                        /\ created[k].sprint_id = res'[p].sprint_id
                        /\ \A j \in 1..Len(submitted) :
                              created[j].id = created[k].id => j = k
                  /\ DOMAIN res'[p].habit_ids =
                        {submitted[k].name : k \in 1..Len(submitted)}
                  /\ \A k \in 1..Len(submitted) :
                        (\A j \in (k + 1)..Len(submitted) :
                            submitted[j].name # submitted[k].name)
                          => res'[p].habit_ids[submitted[k].name] = created[k].id]_vars

\* a create_sprint of two habits of one name succeeded
C13_Witness ==
    \E p \in Procs :
        /\ pc[p] = "done" /\ loc[p].op = "create_sprint" /\ res[p].status = 200
        /\ Len(loc[p].sprint.habits) = 2
        /\ loc[p].sprint.habits[1].name = loc[p].sprint.habits[2].name
        /\ Cardinality(HabitRows(database, res[p].sprint_id)) = 2

(* ------------------------- get_sprint properties --------------------- *)

\* C14: get_sprint on an id for which no sprint row exists fails with NotFound: it
\* returns no sprint fields and no days array, and the outcome is the not-found
\* error kind.
C14_MissingSprint ==
    \A p \in Procs :
        (pc[p] = "done" /\ loc[p].op = "get_sprint"
            /\ SprintRows(database, loc[p].sprint_id) = {}) =>
            /\ DOMAIN res[p] \cap {"id", "start_date", "end_date", "habits", "days"} = {}
            /\ NotFound(res[p])

(* -------------------------- ownership properties ---------------------- *)

\* every habit's sprint_id is the id of a sprint row
HabitsOwned == \A h \in database.habits : SprintRows(database, h.sprint_id) # {}

\* every effort log's habit_id is the id of a habit row
EffortsOwned ==
    \A e \in database.effort_logs : \E h \in database.habits : h.id = e.habit_id

\* C15: the ownership chain is a tree in every reachable state, whatever the
\* sequence and interleaving of create_sprint, log_effort and delete_sprint: every
\* habit's sprint_id is the id of an existing sprint and every effort log's
\* habit_id is the id of an existing habit.
C15_OwnershipTree == HabitsOwned /\ EffortsOwned

(* ---------------------------- score bounds ---------------------------- *)

\* the rows of a fetched list
RowsOf(fetched) == {fetched[k] : k \in 1..Len(fetched)}

\* C16: for a sprint whose habits all have weight >= 0 and target_hours > 0,
\* whatever the sequence and interleaving of log_effort calls, every set slot of
\* the days array get_sprint returns is at most the sum of the weights of the
\* sprint's habits.
C16_AtMostWeights ==
    \A p \in Procs :
        (Scored(p) /\ \A h \in RowsOf(res[p].habits) : h.weight >= 0 /\ h.target_hours > 0) =>
            \A i \in 1..Len(res[p].days) :
                res[p].days[i] # None =>
                    RLeq(res[p].days[i], Float(WeightSum(RowsOf(res[p].habits))))

(* ----------------------------- frame effect --------------------------- *)

\* what a get_sprint of the sprint answers on the store
Retrieval(store, sprint) ==
    SprintResponse(sprint, FetchAll(HabitRows(store, sprint.id)), store)

\* slot i of the sprint's days is the slot of the effort's habit and date
OwnSlot(store, sprint, effort, i) ==
    /\ \E h \in HabitRows(store, sprint.id) : h.id = effort.habit_id
    /\ i = (effort.date - sprint.start_date) + 1

\* the slots of `after` other than the effort's own are those of `before`
SameElsewhere(store, sprint, effort, before, after) ==
    /\ Len(after.days) = Len(before.days)
    /\ \A i \in 1..Len(before.days) :
          OwnSlot(store, sprint, effort, i) \/ after.days[i] = before.days[i]

\* C17 as stated: comparing get_sprint results before and after a successful
\* log_effort(habit, date, hours), every slot of the habit's sprint other than the
\* slot at index (date - start_date) is unchanged, and the days arrays of all
\* other sprints are unchanged.
C17_Original ==
    [][\A p \in Procs :
          Completes(p, "log_effort", 200) =>
              \A sprint \in database.sprints :
                  LET before == Retrieval(database, sprint)
                      after == Retrieval(database', sprint)
                  IN  before.status = 200 =>
                          /\ after.status = 200
                          /\ SameElsewhere(database, sprint, loc[p].effort, before, after)]_vars

\* C17, amended: comparing get_sprint results that both succeed, before and after
\* a successful log_effort(habit, date, hours), every slot of the habit's sprint
\* other than the slot at index (date - start_date) is unchanged, and the days
\* arrays of all other sprints are unchanged; the get_sprint after fails where the
\* one before succeeded only for the habit's own sprint, when the habit's
\* target_hours is 0 and the date is within the sprint.
C17_OwnSlotOnly ==
    [][\A p \in Procs :
          Completes(p, "log_effort", 200) =>
              \A sprint \in database.sprints :
                  LET before == Retrieval(database, sprint)
                      after == Retrieval(database', sprint)
                  IN  before.status = 200 =>
                          IF after.status = 200
                          THEN SameElsewhere(database, sprint, loc[p].effort, before, after)
                          ELSE \E h \in HabitRows(database, sprint.id) :
                                  /\ h.id = loc[p].effort.habit_id
                                  /\ h.target_hours = 0
                                  /\ sprint.start_date <= loc[p].effort.date
                                  /\ loc[p].effort.date <= sprint.end_date]_vars

\* a log_effort set a slot of its habit's sprint while another sprint, or another
\* day of that sprint, has a set slot
C17_Witness ==
    \E p \in Procs :
        /\ pc[p] = "done" /\ loc[p].op = "log_effort" /\ res[p].status = 200
        /\ Cardinality(database.sprints) = 2
        /\ \E sprint \in database.sprints :
              LET after == Retrieval(database, sprint)
              IN  /\ after.status = 200
                  /\ \E i \in 1..Len(after.days) :
                        OwnSlot(database, sprint, loc[p].effort, i) /\ after.days[i] # None
        /\ \E sprint \in database.sprints :
              LET after == Retrieval(database, sprint)
              IN  /\ after.status = 200
                  /\ \E i \in 1..Len(after.days) :
                        ~OwnSlot(database, sprint, loc[p].effort, i) /\ after.days[i] # None

(* ----------------------------- read consistency ----------------------- *)

\* C18: every successful get_sprint response is what get_sprint would answer from
\* one store state that existed during the call, also when a delete_sprint or a
\* log_effort of another caller runs during it: sprint fields, habit list and days
\* are never a mix of the rows before and the rows after a concurrent write.
C18_SingleState ==
    \A p \in Procs : Scored(p) => res[p] \in loc[p].seen

(* ------------------------------ fresh sprints ------------------------- *)

\* C19: a get_sprint issued right after a successful create_sprint, before any
\* further log_effort, returns a days array with every slot unset, whatever
\* create_sprint, log_effort and delete_sprint calls came before: no effort log
\* written before the sprint's habits existed is attributed to them.
C19_StartsUnset ==
    [][\A p \in Procs :
          Completes(p, "create_sprint", 200) =>
              LET answer == Answer(database', res'[p].sprint_id)
              IN  /\ answer.status = 200
                  /\ \A i \in 1..Len(answer.days) : answer.days[i] = None]_vars

====
